---- MODULE Spec2Model ----
(***************************************************************************)
(* Playhead engine of PIXI.extras.TimelineMovieClip                        *)
(* (src/src/extras/TimelineMovieClip.js, the definition at lines 220-540). *)
(*                                                                         *)
(* One movie clip `mc` is modelled in full, together with the createjs     *)
(* Timeline it owns and the chain `anc` of its ancestors in the display    *)
(* tree (of an ancestor only what advance() reads and writes for the frame *)
(* rate lookup: mode, framerate, _framerate).                              *)
(*                                                                         *)
(* Three specifications share the state: Spec, the clip under direct calls *)
(* of its public operations; TickSpec, the tree driven by createjs.Ticker; *)
(* ScriptSpec, the clip on a timeline whose frame script seeks the clip.   *)
(*                                                                         *)
(* Numbers.  Positions and frames are integers.  The frame budget t of     *)
(* advance() is a JavaScript double; it is kept in fixed point, in units   *)
(* of 1/Scale frame, and the inputs are chosen so that every value is      *)
(* exact.  NaN, null/undefined are integers outside the range of every     *)
(* position; all comparisons on values that may be NaN go through JsLt,    *)
(* JsEq, which give JavaScript's answers.                                  *)
(***************************************************************************)
EXTENDS Integers, Sequences, FiniteSets, TLC

\* ---------------------------------------------------------------- bounds
Duration == 3
\* the timeline's duration in frames (the longest tween added to it)
MaxPos == 6
\* cap on the raw (unwrapped) requested position: it grows without bound
MaxHalfFrames == 2
\* elapsed times handed to advance are 0..MaxHalfFrames half frame periods
Depth == 1
\* number of ancestors of the clip in the display tree
RunFrame == 1
\* the frame the label "run" names
StopFrame == 2
\* the frame that carries a stop() action on timelines that have one
MaxOffset == 2
\* _synchOffset ranges over 0..MaxOffset

\* ------------------------------------------------------------- constants
Scale == 2
\* fixed-point denominator of t, frames and _t
NaN == -2
Null == -3
NeverPositioned == -1
Unset == -1
MsPerSecond == 1000
Rate == 10
\* the explicit frame rate used, frames per second (the documentation's example)
HalfFrameMs == MsPerSecond \div (Scale * Rate)
\* half a frame period at Rate, in ms
NONE == 0
\* createjs.Tween.NONE, the actions mode that suppresses actions
Absent == -4
\* an argument that was not passed (undefined)
EventObject == -5
\* the event object createjs.Ticker hands to a listener: not a number

INDEPENDENT == "independent"
SINGLE_FRAME == "single"
SYNCHED == "synched"
Modes == {INDEPENDENT, SINGLE_FRAME, SYNCHED}

\* ------------------------------------------------------ JavaScript values
\* x < y on numbers, false when either is NaN
JsLt(x, y) == x # NaN /\ y # NaN /\ x < y
\* x === y (and x == y) on numbers: NaN equals nothing, itself included
JsEq(x, y) == x # NaN /\ y # NaN /\ x = y
\* x === null || x === undefined
IsNullish(x) == x = Null \/ x = Absent
\* x + y and x - y on numbers
JsAdd(x, y) == IF x = NaN \/ y = NaN THEN NaN ELSE x + y
JsSub(x, y) == IF x = NaN \/ y = NaN THEN NaN ELSE x - y

\* ----------------------------------------------------------------- state
VARIABLES mc, anc, pc, frames, last, nAdv, ticker, scene
vars == <<mc, anc, pc, frames, last, nAdv, ticker, scene>>

\* ------------------------------------------------------- createjs.Timeline
\* the labels hash handed to the constructor
Labels == [run |-> RunFrame]
LabelNames == {"run", "missing"}

\* a seek target: a frame number or a label name
NumT(p) == [isLabel |-> FALSE, pos |-> p, name |-> ""]
LabT(l) == [isLabel |-> TRUE, pos |-> 0, name |-> l]
Targets == {NumT(p) : p \in 0..(Duration + 1)} \cup {LabT(l) : l \in LabelNames}

\* Timeline.resolve: Number(positionOrLabel) when that is a number, else the
\* label table's entry (undefined when the label is not in it).  No range check.
Timeline_resolve(tl, target) ==
    IF ~target.isLabel THEN target.pos
    ELSE IF target.name \in DOMAIN Labels THEN Labels[target.name]
    ELSE Absent

\* Timeline._calcPosition
Timeline_calcPosition(tl, value) ==
    IF value < 0 THEN 0
    ELSE IF value < tl.duration THEN value
    ELSE IF tl.loop THEN value % tl.duration ELSE tl.duration

RECURSIVE gotoAndPlay(_, _)
\* the tween actions of frame t run.  Two kinds of action are modelled: the frames
\* in timeline.actions call stop() on the clip, and a frame f in the domain of
\* timeline.seeks calls gotoAndPlay(timeline.seeks[f]) on it
RunAction(s, t) ==
    LET s1 == IF t \in s.timeline.actions THEN [s EXCEPT !.paused = TRUE] ELSE s
    IN  IF t \in DOMAIN s.timeline.seeks
        THEN gotoAndPlay(s1, NumT(s.timeline.seeks[t]))
        ELSE s1

\* whether Timeline.setPosition(value, actionsMode) runs an action
ActionRuns(s, value, actionsMode) ==
    LET t == Timeline_calcPosition(s.timeline, value)
    IN  /\ ~JsEq(t, s.timeline._prevPos)
        /\ actionsMode # NONE
        /\ t \in s.timeline.actions \cup DOMAIN s.timeline.seeks

\* Timeline.setPosition(value, actionsMode), useTicks: the tweens run the
\* actions of the frame landed on, unless actionsMode is NONE
Timeline_setPosition(s, value, actionsMode) ==
    LET tl == s.timeline
        t == Timeline_calcPosition(tl, value)
        moved == [s EXCEPT !.timeline._prevPosition = value,
                           !.timeline._prevPos = t,
                           !.timeline.position = t]
    IN  IF JsEq(t, tl._prevPos) THEN s
        ELSE IF ActionRuns(s, value, actionsMode) THEN RunAction(moved, t)
        ELSE moved

\* ------------------------------------------------------ TimelineMovieClip
\* the constructor
TimelineMovieClip(mode, startPosition, loop, actions) ==
    [ mode |-> mode,
      startPosition |-> IF IsNullish(startPosition) THEN 0 ELSE startPosition,
      loop |-> TRUE,   \* this.loop, which a new object does not have, is read; not the argument
      currentFrame |-> 0,
      paused |-> FALSE,
      actionsEnabled |-> TRUE,
      framerate |-> Null,
      _framerate |-> Absent,
      _synchOffset |-> 0,
      _prevPos |-> NeverPositioned,
      _prevPosition |-> 0,
      _t |-> 0,
      resolved |-> FALSE,   \* not a property of the clip: whether _updateTimeline ever ran
      timeline |-> [ loop |-> TRUE,
                     duration |-> Duration,
                     actions |-> actions,
                     seeks |-> <<>>,
                     position |-> IF IsNullish(startPosition) THEN Null ELSE NaN,
                     _prevPos |-> IF IsNullish(startPosition) THEN NeverPositioned ELSE NaN,
                     _prevPosition |-> IF IsNullish(startPosition) THEN 0 ELSE startPosition ] ]

\* UpdatePos with the mode test lost: every clip positioned as an independent one
UpdatePos_IgnoreMode(s) == IF JsLt(s._prevPos, 0) THEN 0 ELSE s._prevPosition

\* the position _updateTimeline asks the timeline for
UpdatePos(s) ==
    IF s.mode # INDEPENDENT
    THEN s.startPosition + (IF s.mode = SINGLE_FRAME THEN 0 ELSE s._synchOffset)
    ELSE IF JsLt(s._prevPos, 0) THEN 0 ELSE s._prevPosition

\* UpdateMode without the test of actionsEnabled
UpdateMode_IgnoreEnabled(s) == IF s.mode # INDEPENDENT THEN NONE ELSE Null

\* the actions mode _updateTimeline passes
UpdateMode(s) ==
    IF s.mode # INDEPENDENT \/ ~s.actionsEnabled THEN NONE ELSE Null

\* _updateTimeline without its last statement, the adoption of the timeline's frame
_updateTimeline_NoAdopt(s) ==
    LET s1 == [s EXCEPT !.timeline.loop = s.loop, !.resolved = TRUE]
        pos == UpdatePos(s1)
        s2 == [s1 EXCEPT !.currentFrame = Timeline_calcPosition(s1.timeline, pos)]
        s3 == Timeline_setPosition(s2, pos, UpdateMode(s1))
    IN  [s3 EXCEPT !._prevPosition = s3.timeline._prevPosition]

\* _updateTimeline adopting the timeline's frame as currentFrame only
_updateTimeline_KeepPrevPos(s) ==
    LET s1 == [s EXCEPT !.timeline.loop = s.loop, !.resolved = TRUE]
        pos == UpdatePos(s1)
        s2 == [s1 EXCEPT !.currentFrame = Timeline_calcPosition(s1.timeline, pos)]
        s3 == Timeline_setPosition(s2, pos, UpdateMode(s1))
        s4 == [s3 EXCEPT !._prevPosition = s3.timeline._prevPosition]
    IN  IF JsEq(s4._prevPos, s4.timeline._prevPos) THEN s4
        ELSE [s4 EXCEPT !.currentFrame = s4.timeline._prevPos]

_updateTimeline(s) ==
    LET s1 == [s EXCEPT !.timeline.loop = s.loop, !.resolved = TRUE]
        pos == UpdatePos(s1)
        s2 == [s1 EXCEPT !.currentFrame = Timeline_calcPosition(s1.timeline, pos)]
        s3 == Timeline_setPosition(s2, pos, UpdateMode(s1))
        s4 == [s3 EXCEPT !._prevPosition = s3.timeline._prevPosition]
    IN  IF JsEq(s4._prevPos, s4.timeline._prevPos) THEN s4
        ELSE [s4 EXCEPT !.currentFrame = s4.timeline._prevPos,
                        !._prevPos = s4.timeline._prevPos]

\* _goto without the test of what resolve returned: an unresolved target seeks
\* to the start
_goto_Unchecked(s, positionOrLabel) ==
    LET pos == Timeline_resolve(s.timeline, positionOrLabel)
        s1 == IF s._prevPos = NeverPositioned THEN [s EXCEPT !._prevPos = NaN] ELSE s
    IN  _updateTimeline([s1 EXCEPT !._prevPosition = IF IsNullish(pos) THEN 0 ELSE pos,
                                   !._t = 0])

\* _goto that ignores a position beyond the duration
_goto_RangeChecked(s, positionOrLabel) ==
    LET pos == Timeline_resolve(s.timeline, positionOrLabel)
        s1 == IF s._prevPos = NeverPositioned THEN [s EXCEPT !._prevPos = NaN] ELSE s
    IN  IF IsNullish(pos) \/ pos > s.timeline.duration THEN s
        ELSE _updateTimeline([s1 EXCEPT !._prevPosition = pos, !._t = 0])

\* _goto without the NaN marker on a clip that was never positioned
_goto_NoMarker(s, positionOrLabel) ==
    LET pos == Timeline_resolve(s.timeline, positionOrLabel)
    IN  IF IsNullish(pos) THEN s
        ELSE _updateTimeline([s EXCEPT !._prevPosition = pos, !._t = 0])

_goto(s, positionOrLabel) ==
    LET pos == Timeline_resolve(s.timeline, positionOrLabel)
        s1 == IF s._prevPos = NeverPositioned THEN [s EXCEPT !._prevPos = NaN] ELSE s
    IN  IF IsNullish(pos) THEN s
        ELSE _updateTimeline([s1 EXCEPT !._prevPosition = pos, !._t = 0])

gotoAndPlay(s, positionOrLabel) == _goto([s EXCEPT !.paused = FALSE], positionOrLabel)

gotoAndStop(s, positionOrLabel) == _goto([s EXCEPT !.paused = TRUE], positionOrLabel)

play(s) == [s EXCEPT !.paused = FALSE]

stop(s) == [s EXCEPT !.paused = TRUE]

RECURSIVE ResolveFps(_, _)
\* the ancestor walk stopping at the first independent ancestor, resolved rate or not
ResolveFps_FirstIndependent(fps, chain) ==
    IF chain = <<>> \/ ~IsNullish(fps) THEN fps
    ELSE IF Head(chain).mode = INDEPENDENT THEN Head(chain)._framerate
    ELSE ResolveFps(fps, Tail(chain))

\* the ancestor walk of advance: chain is the sequence of ancestors, parent first
ResolveFps(fps, chain) ==
    IF chain = <<>> \/ ~IsNullish(fps) THEN fps
    ELSE ResolveFps(IF Head(chain).mode = INDEPENDENT THEN Head(chain)._framerate ELSE fps,
                    Tail(chain))

\* time / (1000 / fps), in units of 1/Scale frame; NaN when time is an object
ElapsedFrames(time, fps) ==
    IF time = EventObject THEN NaN ELSE (time * Scale * fps) \div MsPerSecond

\* AdvanceT without the test for the reserved rate -1
AdvanceT_NoUnsetTest(s, fps, time) ==
    IF ~IsNullish(fps) /\ ~IsNullish(time)
    THEN JsAdd(ElapsedFrames(time, fps), s._t)
    ELSE Scale

\* t of advance, in units of 1/Scale frame
AdvanceT(s, fps, time) ==
    IF ~IsNullish(fps) /\ fps # Unset /\ ~IsNullish(time)
    THEN JsAdd(ElapsedFrames(time, fps), s._t)
    ELSE Scale

\* frames of advance: t || 0 (0 and NaN are falsy)
AdvanceFrames(t) == IF t # 0 /\ t # NaN THEN t ELSE 0

\* advance without the mode test
AdvanceRuns_Always(s) == TRUE

\* advance returns at once unless the clip is independent
AdvanceRuns(s) == s.mode = INDEPENDENT

\* the state advance leaves when it reaches its loop (the rate lookup, t, frames
\* and the leftover time)
AdvanceEnter(s, chain, time) ==
    LET fps == ResolveFps(s.framerate, chain)
        t == AdvanceT(s, fps, time)
    IN  [s EXCEPT !._framerate = fps, !._t = JsSub(t, AdvanceFrames(t))]

\* the frame budget advance enters its loop with, in 1/Scale frame
AdvanceBudget(s, chain, time) == AdvanceFrames(AdvanceT(s, ResolveFps(s.framerate, chain), time))

\* the loop body's first statement skipping a frame
AdvanceBump_Skip(s) ==
    [s EXCEPT !._prevPosition = IF JsLt(s._prevPos, 0) THEN 0 ELSE s._prevPosition + 2]

\* the loop body's first statement: the next requested position
AdvanceBump(s) ==
    [s EXCEPT !._prevPosition = IF JsLt(s._prevPos, 0) THEN 0 ELSE s._prevPosition + 1]

\* the loop's condition with the test of paused lost
LoopContinues_NoPauseTest(s, budget) == budget # 0

\* the loop's condition, !this.paused && frames--, on the budget left
LoopContinues(s, budget) == ~s.paused /\ budget # 0

\* one iteration of the loop of advance
AdvanceIterate(s) == _updateTimeline(AdvanceBump(s))

\* the rate lookup of advance as an ancestor performs it for itself
AncestorRate(chain, i) == ResolveFps(chain[i].framerate, SubSeq(chain, i + 1, Len(chain)))

\* ------------------------------------------------- observation of a call
\* `last` describes the call in progress or, when pc = "idle", the last call:
\* its operation and arguments, whether it is a seek that repeats the call
\* before it; of advance whether the clip was paused when it began, the leftover
\* time it found (in 1/Scale frame) and the requested position it started from
\* (-1 when the clip was never positioned); the number of position resolutions it made, the position
\* the latest of them requested, whether a timeline action ran in it.
\* nAdv counts the calls of advance since construction as long as each was made
\* unpaused with no frame rate resolved and nothing else happened to the clip
\* (-1 afterwards).
NoCall == [op |-> "none", target |-> NumT(0), time |-> Absent, again |-> FALSE,
           wasPaused |-> FALSE, carried |-> 0, from |-> 0, nRes |-> 0, req |-> 0,
           acted |-> FALSE]

\* whether _updateTimeline(s) runs a timeline action
UpdateActs(s) == ActionRuns([s EXCEPT !.timeline.loop = s.loop], UpdatePos(s), UpdateMode(s))

\* the state _goto hands to _updateTimeline
GotoArg(s, pos) ==
    [s EXCEPT !._prevPos = IF s._prevPos = NeverPositioned THEN NaN ELSE s._prevPos,
              !._prevPosition = pos, !._t = 0]

SeekCall(op, s, x) ==
    LET pos == Timeline_resolve(s.timeline, x)
    IN  [NoCall EXCEPT !.op = op, !.target = x,
                       !.again = (last.op = op /\ last.target = x),
                       !.nRes = IF IsNullish(pos) THEN 0 ELSE 1,
                       !.req = IF IsNullish(pos) THEN 0 ELSE UpdatePos(GotoArg(s, pos)),
                       !.acted = ~IsNullish(pos) /\ UpdateActs(GotoArg(s, pos))]

\* the requested position a call of advance starts from
ReqFrom(s) == IF JsLt(s._prevPos, 0) THEN -1 ELSE s._prevPosition

\* no frame rate is resolved: none, or the reserved value -1
NoRate(fps) == IsNullish(fps) \/ fps = Unset

\* ---------------------------------------------------------------- actions
Times == {Absent} \cup {k * HalfFrameMs : k \in 0..MaxHalfFrames}

\* an ancestor as constructed: independent with no frame rate or with Rate, or
\* synched; it has not advanced yet
AncestorKinds == {[mode |-> INDEPENDENT, framerate |-> Null, _framerate |-> Absent],
                  [mode |-> INDEPENDENT, framerate |-> Rate, _framerate |-> Absent],
                  [mode |-> SYNCHED, framerate |-> Null, _framerate |-> Absent]}

\* the ancestor chains the clip is placed under: of a synched ancestor the frame
\* rate is never read, and of a clip that is not independent no ancestor is
AncestorChains(mode) ==
    IF mode = INDEPENDENT
    THEN [1..Depth -> AncestorKinds]
    ELSE [1..Depth -> {[mode |-> INDEPENDENT, framerate |-> Null, _framerate |-> Absent]}]

\* the startPosition arguments tried: an independent clip never reads it
StartPositions(mode) == IF mode = INDEPENDENT THEN {Absent, 0} ELSE {Absent, 1}

\* createjs.Ticker: its listeners in the order they subscribed (0 is the clip,
\* i the ancestor anc[i], the parent being 1), and of the tick being dispatched
\* the index of the next listener to call (0 between ticks), the elapsed time
\* the event carries and the listeners already called
NoTick(listeners) == [listeners |-> listeners, at |-> 0, delta |-> 0, done |-> {}]

\* the subscription order when the tree was constructed root first, clip last
TopDown(chain) == [k \in 1..(Len(chain) + 1) |-> Len(chain) + 1 - k]

\* the subscription order when it was constructed clip first, root last
BottomUp(chain) == [k \in 1..(Len(chain) + 1) |-> k - 1]

\* `scene` is what the client did with the clip: the loop argument it passed to
\* the constructor, whether it has destroyed the clip
Init ==
    /\ \E mode \in Modes :
          /\ \E startPosition \in StartPositions(mode), actions \in {{}, {StopFrame}} :
                mc = TimelineMovieClip(mode, startPosition, TRUE, actions)
          /\ anc \in AncestorChains(mode)
    /\ pc = "idle"
    /\ frames = 0
    /\ last = NoCall
    /\ nAdv = 0
    /\ ticker = NoTick(TopDown(anc))
    /\ scene = [loop |-> TRUE, destroyed |-> FALSE]

\* advance(time) up to its loop, or to its return when the clip is not independent
AdvanceCall(time) ==
    /\ pc = "idle"
    /\ IF AdvanceRuns(mc)
       THEN /\ mc.paused \/ ReqFrom(mc) + (AdvanceBudget(mc, anc, time) \div Scale) <= MaxPos
            /\ mc' = AdvanceEnter(mc, anc, time)
            /\ frames' = AdvanceBudget(mc, anc, time)
            /\ pc' = "loop"
            /\ nAdv' = IF nAdv >= 0 /\ NoRate(ResolveFps(mc.framerate, anc)) /\ ~mc.paused
                          /\ mc.loop
                       THEN nAdv + 1 ELSE -1
       ELSE /\ UNCHANGED <<mc, frames, pc>>
            /\ nAdv' = -1
    /\ last' = [NoCall EXCEPT !.op = "advance", !.time = time, !.wasPaused = mc.paused,
                              !.carried = mc._t, !.from = ReqFrom(mc)]
    /\ UNCHANGED anc

\* a call of advance by the client
Advance(time) == AdvanceCall(time) /\ UNCHANGED <<ticker, scene>>

\* while (!this.paused && frames--): one iteration
AdvanceLoop ==
    /\ pc = "loop"
    /\ LoopContinues(mc, frames)
    /\ ReqFrom(mc) < MaxPos
    /\ last.nRes <= MaxPos
    /\ frames' = frames - Scale
    /\ mc' = AdvanceIterate(mc)
    /\ last' = [last EXCEPT !.nRes = @ + 1, !.req = UpdatePos(AdvanceBump(mc)),
                            !.acted = @ \/ UpdateActs(AdvanceBump(mc))]
    /\ UNCHANGED <<anc, pc, nAdv>>
    /\ UNCHANGED <<ticker, scene>>

\* the loop's condition fails: advance returns
AdvanceReturn ==
    /\ pc = "loop"
    /\ ~LoopContinues(mc, frames)
    /\ pc' = "idle"
    /\ frames' = 0
    /\ nAdv' = IF last.acted THEN -1 ELSE nAdv
    /\ UNCHANGED <<mc, anc, last>>
    /\ UNCHANGED <<ticker, scene>>

\* an independent ancestor's own advance, as far as the rate lookup goes
AncestorAdvance(i) ==
    /\ pc = "idle"
    /\ anc[i].mode = INDEPENDENT
    /\ anc' = [anc EXCEPT ![i]._framerate = AncestorRate(anc, i)]
    /\ UNCHANGED <<mc, pc, frames, last, nAdv>>
    /\ UNCHANGED <<ticker, scene>>

GotoAndPlay(x) ==
    /\ pc = "idle"
    /\ mc' = gotoAndPlay(mc, x)
    /\ last' = SeekCall("gotoAndPlay", [mc EXCEPT !.paused = FALSE], x)
    /\ nAdv' = -1
    /\ UNCHANGED <<anc, pc, frames>>
    /\ UNCHANGED <<ticker, scene>>

GotoAndStop(x) ==
    /\ pc = "idle"
    /\ mc' = gotoAndStop(mc, x)
    /\ last' = SeekCall("gotoAndStop", [mc EXCEPT !.paused = TRUE], x)
    /\ nAdv' = -1
    /\ UNCHANGED <<anc, pc, frames>>
    /\ UNCHANGED <<ticker, scene>>

Play ==
    /\ pc = "idle"
    /\ mc' = play(mc)
    /\ last' = [NoCall EXCEPT !.op = "play"]
    /\ nAdv' = -1
    /\ UNCHANGED <<anc, pc, frames>>
    /\ UNCHANGED <<ticker, scene>>

Stop ==
    /\ pc = "idle"
    /\ mc' = stop(mc)
    /\ last' = [NoCall EXCEPT !.op = "stop"]
    /\ nAdv' = -1
    /\ UNCHANGED <<anc, pc, frames>>
    /\ UNCHANGED <<ticker, scene>>

\* reading currentLabel
CurrentLabel ==
    /\ pc = "idle"
    /\ mc' = _updateTimeline(mc)
    /\ last' = [NoCall EXCEPT !.op = "currentLabel", !.nRes = 1,
                              !.req = UpdatePos(mc), !.acted = UpdateActs(mc)]
    /\ nAdv' = -1
    /\ UNCHANGED <<anc, pc, frames>>
    /\ UNCHANGED <<ticker, scene>>

\* the client assigns the public properties framerate and loop; the parent
\* timeline assigns _synchOffset of a clip it places
SetFramerate(r) ==
    /\ pc = "idle"
    /\ mc.mode = INDEPENDENT
    /\ mc' = [mc EXCEPT !.framerate = r]
    /\ last' = [NoCall EXCEPT !.op = "set"]
    /\ UNCHANGED <<anc, pc, frames, nAdv>>
    /\ UNCHANGED <<ticker, scene>>

SetLoop(b) ==
    /\ pc = "idle"
    /\ mc' = [mc EXCEPT !.loop = b]
    /\ last' = [NoCall EXCEPT !.op = "set"]
    /\ nAdv' = -1
    /\ UNCHANGED <<anc, pc, frames>>
    /\ UNCHANGED <<ticker, scene>>

SetSynchOffset(o) ==
    /\ pc = "idle"
    /\ mc.mode # INDEPENDENT
    /\ mc' = [mc EXCEPT !._synchOffset = o]
    /\ last' = [NoCall EXCEPT !.op = "set"]
    /\ nAdv' = -1
    /\ UNCHANGED <<anc, pc, frames>>
    /\ UNCHANGED <<ticker, scene>>

Next ==
    \/ \E time \in Times : Advance(time)
    \/ AdvanceLoop
    \/ AdvanceReturn
    \/ \E i \in 1..Depth : AncestorAdvance(i)
    \/ \E x \in Targets : GotoAndPlay(x)
    \/ \E x \in Targets : GotoAndStop(x)
    \/ Play
    \/ Stop
    \/ CurrentLabel
    \/ \E r \in {Null, Unset, Rate} : SetFramerate(r)
    \/ \E b \in BOOLEAN : SetLoop(b)
    \/ \E o \in 0..MaxOffset : SetSynchOffset(o)

Spec == Init /\ [][Next]_vars

\* ------------------------------------------------- the clip under the Ticker
\* The tree is constructed, every node subscribing its advance to createjs.Ticker
\* as it is, and from then on the Ticker's tick events drive it.

\* the elapsed times tick events carry, in ms
Deltas == {k * HalfFrameMs : k \in 0..MaxHalfFrames}

\* what the subscribed listener, this.advance.bind(this), hands to advance when
\* the Ticker calls it with its event: the event
Listener(evt) == evt

\* the Ticker after it has called the listener of node n
Dispatched(n) ==
    [ticker EXCEPT !.at = IF @ = Len(ticker.listeners) THEN 0 ELSE @ + 1,
                   !.done = @ \cup {n}]

\* the listener the Ticker calls next
NextListener == ticker.listeners[ticker.at]

TickInit ==
    /\ \E loop \in BOOLEAN :
          /\ mc = TimelineMovieClip(INDEPENDENT, Absent, loop, {})
          /\ scene = [loop |-> loop, destroyed |-> FALSE]
    /\ anc \in [1..(Depth + 1) -> AncestorKinds]
    /\ ticker \in {NoTick(TopDown(anc)), NoTick(BottomUp(anc))}
    /\ pc = "idle"
    /\ frames = 0
    /\ last = NoCall
    /\ nAdv = 0

\* the Ticker starts dispatching a tick event
TickFire(delta) ==
    /\ pc = "idle"
    /\ ticker.at = 0
    /\ ticker' = [ticker EXCEPT !.at = 1, !.delta = delta, !.done = {}]
    /\ UNCHANGED <<mc, anc, pc, frames, last, nAdv, scene>>

\* the Ticker calls the listener of an ancestor
TickAncestor ==
    /\ pc = "idle"
    /\ ticker.at > 0
    /\ NextListener # 0
    /\ anc' = IF anc[NextListener].mode = INDEPENDENT
              THEN [anc EXCEPT ![NextListener]._framerate = AncestorRate(anc, NextListener)]
              ELSE anc
    /\ ticker' = Dispatched(NextListener)
    /\ UNCHANGED <<mc, pc, frames, last, nAdv, scene>>

\* the Ticker calls the listener of the clip
TickClip ==
    /\ ticker.at > 0
    /\ NextListener = 0
    /\ AdvanceCall(Listener(EventObject))
    /\ ticker' = Dispatched(0)
    /\ UNCHANGED scene

\* the client destroys the clip: nothing removes its listener from the Ticker
Destroy ==
    /\ pc = "idle"
    /\ ticker.at = 0
    /\ ~scene.destroyed
    /\ scene' = [scene EXCEPT !.destroyed = TRUE]
    /\ UNCHANGED <<mc, anc, pc, frames, last, nAdv, ticker>>

TickNext ==
    \/ \E delta \in Deltas : TickFire(delta)
    \/ TickAncestor
    \/ TickClip
    \/ AdvanceLoop
    \/ AdvanceReturn
    \/ Destroy
    \/ ticker.at = 0 /\ \E r \in {Null, Unset, Rate} : SetFramerate(r)

TickSpec == TickInit /\ [][TickNext]_vars

\* ------------------------------------------- the clip with a scripted timeline
\* The timeline carries a frame script that seeks the clip itself, and the client
\* also assigns mode and actionsEnabled and reads the accessors.

\* the frame scripts tried: frame RunFrame seeks to frame 0 or to frame StopFrame
Scripts == {RunFrame :> 0, RunFrame :> StopFrame}

ScriptInit ==
    /\ \E mode \in Modes, actions \in {{}, {StopFrame}}, seeks \in Scripts :
          mc = [TimelineMovieClip(mode, Absent, TRUE, actions) EXCEPT !.timeline.seeks = seeks]
    /\ anc \in AncestorChains(SYNCHED)
    /\ pc = "idle"
    /\ frames = 0
    /\ last = NoCall
    /\ nAdv = 0
    /\ ticker = NoTick(TopDown(anc))
    /\ scene = [loop |-> TRUE, destroyed |-> FALSE]

SetMode(m) ==
    /\ pc = "idle"
    /\ mc' = [mc EXCEPT !.mode = m]
    /\ last' = [NoCall EXCEPT !.op = "set"]
    /\ nAdv' = -1
    /\ UNCHANGED <<anc, pc, frames, ticker, scene>>

SetActionsEnabled(b) ==
    /\ pc = "idle"
    /\ mc' = [mc EXCEPT !.actionsEnabled = b]
    /\ last' = [NoCall EXCEPT !.op = "set"]
    /\ nAdv' = -1
    /\ UNCHANGED <<anc, pc, frames, ticker, scene>>

\* the accessors without side effect
labels(s) == Labels
totalFrames(s) == s.timeline.duration
duration(s) == s.timeline.duration

\* reading labels, totalFrames and duration
ReadAccessors ==
    /\ pc = "idle"
    /\ <<labels(mc), totalFrames(mc), duration(mc)>> = <<Labels, Duration, Duration>>
    /\ last' = [NoCall EXCEPT !.op = "get"]
    /\ nAdv' = -1
    /\ UNCHANGED <<mc, anc, pc, frames, ticker, scene>>

ScriptNext ==
    \/ Advance(Absent)
    \/ AdvanceLoop
    \/ AdvanceReturn
    \/ \E x \in Targets : GotoAndPlay(x)
    \/ \E x \in Targets : GotoAndStop(x)
    \/ Play
    \/ Stop
    \/ CurrentLabel
    \/ \E b \in BOOLEAN : SetLoop(b)
    \/ \E o \in 0..MaxOffset : SetSynchOffset(o)
    \/ \E m \in Modes : SetMode(m)
    \/ \E b \in BOOLEAN : SetActionsEnabled(b)
    \/ ReadAccessors

ScriptSpec == ScriptInit /\ [][ScriptNext]_vars

\* ----------------------------------------------------------------- claims
Seeks == {"gotoAndPlay", "gotoAndStop"}

\* the call `op` has returned and nothing was done since
Returned(op) == pc = "idle" /\ last.op = op

\* t of the last call of advance, from its arguments (in 1/Scale frame)
LastT == AdvanceT([_t |-> last.carried], mc._framerate, last.time)

\* the last call of advance was made on an unpaused independent clip
AdvanceCase == last.op = "advance" /\ mc.mode = INDEPENDENT /\ ~last.wasPaused

\* C1: a call of advance on an unpaused independent clip for which no frame rate
\* is resolved (none, or -1) makes exactly one position resolution, and that one
\* requests the position after the one the call started from (0 on a clip never
\* positioned), whatever elapsed time was passed.
C1_TickSynchronousOneFrame ==
    (pc = "idle" /\ AdvanceCase /\ NoRate(mc._framerate))
        => (last.nRes = 1 /\ last.req = last.from + 1)

\* C1 witness: rate -1 and an elapsed time of half a frame period at Rate, on a
\* clip already positioned: one resolution all the same
C1_Witness ==
    /\ pc = "idle" /\ AdvanceCase
    /\ mc._framerate = Unset /\ last.time = HalfFrameMs
    /\ last.from >= 0 /\ last.nRes = 1 /\ last.req = last.from + 1

\* C2: with a frame rate resolved and an elapsed time given, the frames a call of
\* advance resolves are the integer part of t (never more while it runs, exactly
\* that many once it has returned undisturbed) and _t is the fractional part of t.
C2_FramesAndRemainder ==
    (AdvanceCase /\ ~NoRate(mc._framerate) /\ ~IsNullish(last.time))
        => /\ mc._t = LastT % Scale
           /\ last.nRes <= LastT \div Scale
           /\ (pc = "idle" /\ ~last.acted) => last.nRes = LastT \div Scale

\* C3: every call of advance terminates.  The loop counts its budget down by one
\* frame per resolution and leaves on reading 0, so it ends by exhausting the
\* budget exactly when the budget is a whole number of frames, not negative.
C3_AdvanceTerminates == pc = "loop" => (frames >= 0 /\ frames % Scale = 0)

\* the last call was a seek on an independent clip that resolved to frame k
SeekLanded(k) ==
    /\ pc = "idle" /\ last.op \in Seeks /\ mc.mode = INDEPENDENT
    /\ Timeline_resolve(mc.timeline, last.target) = k

\* C4: a seek of an independent clip to a frame k inside the timeline has taken
\* effect when it returns (currentFrame = k, _t = 0, paused as the call says),
\* and the advance that follows gotoAndPlay(k) resolves the frame after k.
\* Calls in which a timeline action ran are left aside.
C4_SeekIsSynchronous ==
    \A k \in 0..(Duration - 1) :
        (SeekLanded(k) /\ ~last.acted)
            => /\ mc.currentFrame = k
               /\ mc._t = 0
               /\ mc.paused = (last.op = "gotoAndStop")
               /\ last.op = "gotoAndPlay"
                    => AdvanceIterate(mc).currentFrame
                         = Timeline_calcPosition([mc.timeline EXCEPT !.loop = mc.loop], k + 1)

\* the step is a seek to a label the label table does not hold
SeekMissingLabel ==
    /\ last'.op \in Seeks /\ last'.target.isLabel
    /\ last'.target.name \notin DOMAIN Labels

\* C5: a seek to a label that is not in the label table changes nothing of the
\* clip and its timeline but paused.
C5_UnknownLabelIgnored ==
    [][SeekMissingLabel => mc' = [mc EXCEPT !.paused = (last'.op = "gotoAndStop")]]_vars

\* C5 witness: such a seek was made on a clip that had been positioned
C5_Witness ==
    /\ last.op = "gotoAndStop" /\ last.target = LabT("missing")
    /\ mc._prevPos > 0 /\ mc.currentFrame > 0 /\ mc.paused

\* the step is gotoAndStop(p) with a number p beyond the duration
SeekBeyond == last'.op = "gotoAndStop" /\ ~last'.target.isLabel /\ last'.target.pos > Duration

C7_LoopWraps ==
    (pc = "idle" /\ nAdv >= 1) => mc.currentFrame = (nAdv - 1) % Duration

\* C7 witness: two calls past the first wrap
C7_Witness == pc = "idle" /\ nAdv = Duration + 2 /\ mc.currentFrame = 1

\* C8: a gotoAndStop that repeats the call before it changes nothing.
C8_GotoAndStopIdempotent ==
    [][(last'.op = "gotoAndStop" /\ last'.again) => mc' = mc]_vars

\* C8 witness: gotoAndStop("run") made twice in a row
C8_Witness ==
    /\ last.op = "gotoAndStop" /\ last.again /\ last.target = LabT("run")
    /\ mc.currentFrame = RunFrame /\ mc.paused

\* C9: advance on a clip that is not independent returns at once: no position
\* resolution, the clip and its timeline unchanged.
C9_AdvanceIgnoredUnlessIndependent ==
    [][(pc = "idle" /\ last'.op = "advance" /\ mc.mode # INDEPENDENT)
          => (mc' = mc /\ pc' = "idle" /\ last'.nRes = 0)]_vars

\* C9 witness: advance with an elapsed time on a synched clip a seek had positioned
C9_Witness ==
    /\ pc = "idle" /\ last.op = "advance" /\ last.time = 2 * HalfFrameMs
    /\ mc.mode = SYNCHED /\ mc._prevPos >= 0 /\ last.nRes = 0

\* C10: after a position resolution of a synched clip currentFrame is the frame
\* the timeline maps startPosition + _synchOffset to, of a single-frame clip the
\* frame it maps startPosition to.
C10_SynchedFrame ==
    (pc = "idle" /\ last.nRes >= 1 /\ mc.mode # INDEPENDENT)
        => mc.currentFrame =
             Timeline_calcPosition(mc.timeline,
                 mc.startPosition + (IF mc.mode = SYNCHED THEN mc._synchOffset ELSE 0))

\* C10 witness: a synched clip, paused by a seek to frame 0, stands at frame 2
C10_Witness ==
    /\ pc = "idle" /\ last.op = "gotoAndStop" /\ last.target = NumT(0)
    /\ mc.mode = SYNCHED /\ mc.startPosition = 1 /\ mc._synchOffset = 1
    /\ mc.paused /\ mc.currentFrame = 2

\* the playhead of the clip
Playhead(s) == <<s.currentFrame, s._prevPos, s._prevPosition, s.timeline.position>>

\* C11: advance makes no position resolution while paused is true.  A call made
\* on a paused clip leaves the playhead (currentFrame, _prevPos, _prevPosition,
\* the timeline's position) as it was, and once paused is true inside the loop,
\* set by an action a resolution ran, the call resolves nothing more, whatever
\* is left of the frame budget.
C11_NoResolutionWhilePaused ==
    [][/\ (pc = "idle" /\ pc' = "loop" /\ mc.paused)
            => (Playhead(mc') = Playhead(mc) /\ last'.nRes = 0)
       /\ (pc = "loop" /\ mc.paused)
            => (Playhead(mc') = Playhead(mc) /\ last'.nRes = last.nRes /\ pc' = "idle")]_vars

\* C11 witness: a call made unpaused, its first resolution ran the stop() action,
\* and the loop is left with budget remaining
C11_Witness ==
    /\ pc = "loop" /\ last.op = "advance" /\ ~last.wasPaused
    /\ last.acted /\ last.nRes = 1 /\ mc.paused /\ frames # 0

\* C12: the loop argument of the constructor is the initial value of loop, so as
\* long as the client does not assign loop it is the argument, and a clip
\* constructed with loop = false does not wrap: its frame is the requested
\* position up to the duration and the duration beyond.
C12_LoopArgument ==
    /\ mc.loop = scene.loop
    /\ (~scene.loop /\ pc = "idle" /\ mc._prevPos # NeverPositioned)
          => mc.currentFrame =
               IF mc._prevPosition < Duration THEN mc._prevPosition ELSE Duration

\* the step is the Ticker calling the clip's listener
ClipListenerCalled == 0 \notin ticker.done /\ 0 \in ticker'.done

RECURSIVE TreeRate(_, _)
\* the frame rate a node with own rate fps under the ancestors `chain` resolves
\* when each independent ancestor's resolved rate is the one its own lookup gives
TreeRate(fps, chain) ==
    IF chain = <<>> \/ ~IsNullish(fps) THEN fps
    ELSE TreeRate(IF Head(chain).mode = INDEPENDENT
                  THEN TreeRate(Head(chain).framerate, Tail(chain)) ELSE fps,
                  Tail(chain))

\* C13: within one tick a node's advance runs after the advance of each of its
\* ancestors, whatever order the nodes were constructed in, and so the rate the
\* clip inherits in a tick is the one its ancestors resolve in that tick.
C13_TopDownWithinTick ==
    (0 \in ticker.done /\ pc = "loop" /\ last.nRes = 0)
        => /\ \A i \in 1..Len(anc) : i \in ticker.done
           /\ NoRate(mc._framerate) <=> NoRate(TreeRate(mc.framerate, anc))

\* C14: the clip is in the Ticker's listeners once, and after it was destroyed no
\* tick changes its playhead.
C14_NoTickAfterTeardown ==
    [][scene.destroyed => Playhead(mc') = Playhead(mc)]_vars

\* the nearest independent ancestors of `chain` that have a resolved rate
RatedAncestors(chain) ==
    {i \in 1..Len(chain) : chain[i].mode = INDEPENDENT /\ ~IsNullish(chain[i]._framerate)}

\* C15: the frame rate advance uses is the clip's own framerate when that is set;
\* otherwise the resolved rate of the nearest independent ancestor that has one,
\* synched ancestors and independent ones without a resolved rate being passed
\* over; and none when there is no such ancestor.
C15_EffectiveFrameRate ==
    [][(pc = "idle" /\ pc' = "loop")
          => IF ~IsNullish(mc.framerate) THEN mc'._framerate = mc.framerate
             ELSE IF RatedAncestors(anc) = {} THEN IsNullish(mc'._framerate)
             ELSE \E i \in RatedAncestors(anc) :
                     /\ \A j \in RatedAncestors(anc) : i <= j
                     /\ mc'._framerate = anc[i]._framerate]_vars

\* C15 witness: the clip has no rate, its parent is independent with none
\* resolved, and the clip has taken the rate its grandparent resolved
C15_Witness ==
    /\ pc = "loop" /\ last.nRes = 0
    /\ IsNullish(mc.framerate) /\ mc._framerate = Rate
    /\ anc[1].mode = INDEPENDENT /\ IsNullish(anc[1]._framerate)
    /\ anc[2]._framerate = Rate

\* C16: a tick event carrying the elapsed time delta > 0 advances the unpaused
\* independent clip as the call advance(delta) does.
C16_TickIsAdvanceDelta ==
    [][(ClipListenerCalled /\ ~mc.paused /\ ticker.delta > 0)
          => /\ mc' = AdvanceEnter(mc, anc, ticker.delta)
             /\ frames' = AdvanceBudget(mc, anc, ticker.delta)]_vars

\* C17: after every operation that resolved the position (advance, after each of
\* its resolutions; gotoAndPlay, gotoAndStop, reading currentLabel), a frame
\* script seeking the clip from inside the resolution included, currentFrame is
\* the timeline's _prevPos and so is the clip's _prevPos.
C17_FrameIsTimelineFrame ==
    last.nRes >= 1
        => (mc.currentFrame = mc.timeline._prevPos /\ mc._prevPos = mc.timeline._prevPos)

\* C17 witness: advance resolved frame RunFrame, whose script sought frame 0 from
\* inside that resolution
C17_Witness ==
    /\ last.op = "advance" /\ last.nRes = 1 /\ last.acted
    /\ Timeline_calcPosition(mc.timeline, last.req) = RunFrame
    /\ mc.timeline.seeks[RunFrame] = 0
    /\ mc.currentFrame = 0 /\ mc._prevPos = 0 /\ mc.timeline._prevPos = 0

\* C18: between operations _prevPos is -1 exactly when no position resolution
\* has ever been made on the clip.
C18_NeverPositionedMarker ==
    pc = "idle" => ((mc._prevPos = NeverPositioned) <=> ~mc.resolved)

\* C18 witness: advance was called on a paused clip that was never positioned;
\* it resolved nothing and _prevPos is still -1
C18_Witness ==
    /\ pc = "idle" /\ last.op = "advance" /\ last.wasPaused
    /\ mc.mode = INDEPENDENT /\ mc._prevPos = NeverPositioned /\ ~mc.resolved

\* the step is a call of `op` (that changed something)
Called(op) == last'.op = op /\ (last' # last \/ mc' # mc)

\* the frame the resolution of position pos on clip s lands on is new to the
\* timeline and carries the stop() action
LandsOnStop(s, pos) ==
    LET t == Timeline_calcPosition([s.timeline EXCEPT !.loop = s.loop], pos)
    IN  ~JsEq(t, s.timeline._prevPos) /\ t \in s.timeline.actions

\* actions are allowed on the clip as it stands
ActionsAllowed == mc.mode = INDEPENDENT /\ mc.actionsEnabled

\* C19: the actions of a frame run in a position resolution exactly when at that
\* resolution the clip is independent and actionsEnabled is true.  Seen on the
\* stop() action: gotoAndPlay, which clears paused, or an iteration of advance,
\* which runs unpaused, ends paused only if actions were allowed, and does end
\* paused if they were and the resolution landed on the frame carrying stop().
C19_ActionsIffIndependentAndEnabled ==
    [][/\ (Called("gotoAndPlay") /\ last'.nRes = 1)
            => /\ mc'.paused => ActionsAllowed
               /\ (ActionsAllowed /\ LandsOnStop(mc, UpdatePos(GotoArg(mc, last'.req))))
                     => mc'.paused
       /\ (pc = "loop" /\ last'.nRes = last.nRes + 1)
            => /\ mc'.paused => ActionsAllowed
               /\ (ActionsAllowed /\ LandsOnStop(mc, UpdatePos(AdvanceBump(mc))))
                     => mc'.paused]_vars

\* C19 witness: with actionsEnabled false gotoAndPlay landed an independent clip
\* on the frame carrying stop(), and the clip plays on
C19_Witness ==
    /\ last.op = "gotoAndPlay" /\ last.target = NumT(StopFrame)
    /\ mc.mode = INDEPENDENT /\ ~mc.actionsEnabled /\ StopFrame \in mc.timeline.actions
    /\ mc.currentFrame = StopFrame /\ ~mc.paused

\* C20: reading labels, totalFrames or duration changes nothing of the clip and
\* its timeline; and reading currentLabel right after an operation that resolved
\* the position, the inputs (mode, loop, startPosition, _synchOffset) being as
\* they were, leaves currentFrame, _prevPos and _prevPosition as they are.
C20_AccessorsAndCurrentLabel ==
    [][/\ last'.op = "get" => mc' = mc
       /\ (Called("currentLabel") /\ pc = "idle" /\ last.nRes >= 1)
            => /\ mc'.currentFrame = mc.currentFrame
               /\ mc'._prevPos = mc._prevPos
               /\ mc'._prevPosition = mc._prevPosition]_vars
====
